---- MODULE Spec2Model ----
(***************************************************************************)
(* The claim-verification pipeline of src/app.py: extract_claims, the      *)
(* falsy check on its result, the per-claim loop of main (status text,     *)
(* fact_check_claim, analyze_claim_with_mistral, results.append, progress  *)
(* bar) and the summary counts.  The language model and the search service *)
(* are the environment: each call draws one response from a small set of   *)
(* shapes (exception, unparseable text, JSON of the expected or of another *)
(* shape).  An uncaught Python exception ends the run in pc = "crashed".   *)
(***************************************************************************)
EXTENDS Integers, Sequences, FiniteSets

VARIABLES pc, claims, i, results, events, messages, summary, fault, llm_content

vars == <<pc, claims, i, results, events, messages, summary, fault, llm_content>>

\* Longest claim list the language model returns in the model.
MaxClaims == 2

\* tavily_client.search(max_results=5)
max_results == 5
\* search_result.get('results', [])[:3]
TopSources == 3
\* claim[:60] in the status text
StatusPrefix == 60
\* search_results[:5] in the analyzer's prompt
PromptSources == 5

Min(a, b) == IF a < b THEN a ELSE b

\* Python s[:n]
Slice(s, n) == SubSeq(s, 1, Min(n, Len(s)))

SeqsUpTo(S, n) == UNION {[1..k -> S] : k \in 0..n}

(***************************************************************************)
(* Strings are kept as (content identity, length); s[:n] keeps the         *)
(* identity and cuts the length.  Absent is a key missing from a JSON      *)
(* object, NonStr a JSON number or null where a string is expected.        *)
(***************************************************************************)
Text(id, n) == [id |-> id, len |-> n]
EmptyStr == Text("", 0)
Absent == Text("<absent>", 0)
NonStr == Text("<number>", 0)

\* Python t[:n] on a string
StrSlice(t, n) == Text(IF Min(n, t.len) = 0 THEN "" ELSE t.id, Min(n, t.len))

IsStrPrefix(p, t) == p.len <= t.len /\ (p.len > 0 => p.id = t.id)

\* dict.get(key, default) on a field value
Get(v, default) == IF v = Absent THEN default ELSE v

(***************************************************************************)
(* JSON values that stand where a list is expected.                        *)
(*   "list"   a JSON array                                                 *)
(*   "null"   a falsy non-list (null, 0, "", {}, false)                    *)
(*   "number" a truthy value without len() (a number, true)                *)
(*   "string" a non-empty string: iterating it yields non-dict elements    *)
(*   "absent" the key is missing                                           *)
(***************************************************************************)
List(s) == [kind |-> "list", items |-> s]
EmptyList == List(<<>>)
NullVal == [kind |-> "null", items |-> <<>>]
NumberVal == [kind |-> "number", items |-> <<>>]
NoVal == [kind |-> "absent", items |-> <<>>]

\* ---- claim elements -----------------------------------------------------

ClaimObj(c, cat, q) == [obj |-> TRUE, claim |-> c, category |-> cat, search_query |-> q]
NonObjElem == [obj |-> FALSE, claim |-> Absent, category |-> Absent, search_query |-> Absent]

ClaimA == ClaimObj(Text("c1", 61), Text("AI", 2), Text("q1", 20))
ClaimB == ClaimObj(Text("c2", 12), Absent, Absent)
ClaimBad == ClaimObj(NonStr, Absent, Absent)
ClaimEmpty == ClaimObj(Absent, Absent, Absent)

StringVal == [kind |-> "string", items |-> <<NonObjElem>>]

ClaimElems == {ClaimA, ClaimB, ClaimBad, NonObjElem}
\* the lists the language model returns: no element twice in a row
ClaimLists ==
    {s \in SeqsUpTo(ClaimElems, MaxClaims) : \A k \in 1..(Len(s) - 1) : s[k] # s[k + 1]}
ClaimVals == {List(s) : s \in ClaimLists} \cup {NullVal, NumberVal, StringVal}

\* ---- responses of the language model to the extraction prompt ------------

ExtractResp(tag, cv, dv, self, items) ==
    [tag |-> tag, claimsVal |-> cv, dataVal |-> dv, self |-> self, items |-> items]

ExtractResponses ==
    {ExtractResp(t, NoVal, NoVal, NonObjElem, <<>>) : t \in {"error", "badjson", "scalar"}}
    \cup {ExtractResp("list", NoVal, NoVal, NonObjElem, s) : s \in ClaimLists}
    \cup {ExtractResp("dict", cv, NoVal, ClaimEmpty, <<>>) : cv \in ClaimVals}
    \cup {ExtractResp("dict", NoVal, dv, ClaimEmpty, <<>>) : dv \in ClaimVals}
    \cup {ExtractResp("dict", cv, dv, ClaimEmpty, <<>>) :
            cv \in {EmptyList, NumberVal, List(<<ClaimA>>)}, dv \in {NullVal, List(<<ClaimB>>)}}
    \cup {ExtractResp("dict", NoVal, NoVal, c, <<>>) : c \in {ClaimA, ClaimB, ClaimEmpty}}

\* extract_claims: the value returned for a response
extract_claims(r) ==
    IF r.tag = "error" THEN EmptyList
    ELSE IF r.tag = "badjson" THEN EmptyList
    ELSE IF r.tag = "dict"
         THEN IF r.claimsVal # NoVal THEN r.claimsVal
              ELSE IF r.dataVal # NoVal THEN r.dataVal
              ELSE List(<<r.self>>)
    ELSE IF r.tag = "list" THEN List(r.items)
    ELSE EmptyList

\* extract_claims: the st.error messages it shows
extract_messages(r) ==
    IF r.tag = "error" THEN <<"error: extracting claims">>
    ELSE IF r.tag = "badjson" THEN <<"error: parse">>
    ELSE IF r.tag = "scalar" THEN <<"error: unexpected format">>
    ELSE <<>>

\* ---- the search service and fact_check_claim ------------------------------

Source(n, content) == [obj |-> TRUE, url |-> n, content |-> content]
NonObjSource == [obj |-> FALSE, url |-> 0, content |-> "absent"]

\* the n best sources, in rank order
Ranked(n) == [k \in 1..n |-> Source(k, IF k = 2 THEN "absent" ELSE "text")]

SearchResp(tag, err, res) == [tag |-> tag, err |-> err, results |-> res]

\* numbers of sources the service returns: none, around the top-3 cut, all asked for
SourceCounts == {0, TopSources - 1, TopSources, max_results}

SearchResponses ==
    {SearchResp("raise", "timeout", NoVal), SearchResp("nondict", "", NoVal),
     SearchResp("dict", "", NoVal), SearchResp("dict", "", NullVal),
     SearchResp("dict", "", List(<<Source(1, "text"), NonObjSource>>)),
     SearchResp("dict", "", List(<<Source(1, "null")>>))}
    \cup {SearchResp("dict", "", List(Ranked(n))) : n \in SourceCounts}

SearchFailure(err) == [success |-> FALSE, error |-> err, results |-> EmptyList, answer |-> ""]

\* fact_check_claim: never raises; a non-dict response fails inside the try
fact_check_claim(tr) ==
    IF tr.tag = "raise" THEN SearchFailure(tr.err)
    ELSE IF tr.tag = "nondict" THEN SearchFailure("AttributeError")
    ELSE [success |-> TRUE, error |-> "",
          results |-> IF tr.results = NoVal THEN EmptyList ELSE tr.results,
          answer |-> ""]

\* ---- the language model's verdict and analyze_claim_with_mistral ---------

Labels == {"ACCURATE", "INACCURATE", "PARTIALLY_ACCURATE", "UNVERIFIABLE", "ERROR"}

Analysis(obj, v, conf, expl, evid) ==
    [obj |-> obj, verdict |-> v, confidence |-> conf, explanation |-> expl, evidence |-> evid]

\* a parsed JSON value that is not an object (a list, a string, a number)
NonObjAnalysis == Analysis(FALSE, "<absent>", "<absent>", <<>>, "<absent>")

AnalyzeResp(tag, err, obj, v) == [tag |-> tag, err |-> err, obj |-> obj, verdict |-> v]

\* What the analyzer's model call gives: an exception, unparseable text, a JSON value
\* that is not an object, or an object whose verdict is a label of the prompt, a label
\* outside it, or missing.
AnalyzeResponses ==
    {AnalyzeResp("error", "rate limit", FALSE, ""), AnalyzeResp("badjson", "", FALSE, ""),
     AnalyzeResp("json", "", FALSE, "")}
    \cup {AnalyzeResp("json", "", TRUE, v) :
            v \in {"ACCURATE", "INACCURATE", "PARTIALLY_ACCURATE", "UNVERIFIABLE",
                   "MOSTLY_TRUE", "<absent>"}}

\* the reason str(e) of the exception the try block of the analyzer catches
FailureReason(lr) == IF lr.tag = "error" THEN lr.err ELSE "JSONDecodeError"

\* variant: the synthetic verdict without the failure reason and with another confidence
analyze_error_generic(reason) ==
    Analysis(TRUE, "ERROR", "MEDIUM", <<"Error analyzing claim">>, "")

\* the except branch of analyze_claim_with_mistral
analyze_error(reason) ==
    Analysis(TRUE, "ERROR", "LOW", <<"Error analyzing claim: ", reason>>, "")

\* the prompt formatting loop, outside the try: a non-list, a non-dict source or a
\* non-string content within the first five raises
FormatRaises(res) ==
    \/ res.kind # "list"
    \/ \E k \in 1..Min(PromptSources, Len(res.items)) :
          ~res.items[k].obj \/ res.items[k].content = "null"

\* the try block of analyze_claim_with_mistral: json.loads(content) returned as is
analyze_claim_with_mistral(lr) ==
    IF lr.tag \in {"error", "badjson"} THEN analyze_error(FailureReason(lr))
    ELSE IF lr.obj THEN Analysis(TRUE, lr.verdict, "HIGH", <<"model explanation">>, "model evidence")
    ELSE NonObjAnalysis

\* variant: the search failure reported without the retriever's message
search_failed_unknown(sr) ==
    Analysis(TRUE, "ERROR", "LOW", <<"Search failed: ", "Unknown error">>, "")

\* the else branch of main: the verdict synthesised when the search failed
search_failed_analysis(sr) ==
    Analysis(TRUE, "ERROR", "LOW", <<"Search failed: ", sr.error>>, "")

\* variant: every retrieved source kept
all_sources(sr) == sr.results.items

\* search_result.get('results', [])[:3]
top_sources(sr) == Slice(sr.results.items, TopSources)

\* ---- what the run does that an observer sees, in order -------------------
\*   "status"   status_text.text("Checking claim idx/total: text...")
\*   "retrieve" fact_check_claim called with search query text; it returned
\*              success (out), the sources res and the error message err
\*   "analyze"  analyze_claim_with_mistral called with the sources res
\*   "llm"      the analyzer's chat.complete call and json.loads: out is "json",
\*              or "error" / "badjson" with the exception's message err
\*   "append"   results.append
\*   "progress" progress_bar.progress(idx / total)
\* Every event has the fields ev and idx (the 1-based claim number).
StatusEvent(k, n, text) == [ev |-> "status", idx |-> k, total |-> n, text |-> text]
RetrieveEvent(k, query, sr) ==
    [ev |-> "retrieve", idx |-> k, text |-> query, res |-> sr.results,
     out |-> IF sr.success THEN "success" ELSE "failure", err |-> sr.error]
AnalyzeEvent(k, res) == [ev |-> "analyze", idx |-> k, res |-> res]
LlmEvent(k, out, err) == [ev |-> "llm", idx |-> k, out |-> out, err |-> err]
AppendEvent(k) == [ev |-> "append", idx |-> k]
ProgressEvent(k, n) == [ev |-> "progress", idx |-> k, total |-> n]

\* variant: the 0-based loop index shown
status_text_zero_based(k, n, claim) ==
    StatusEvent(k, n, StrSlice(claim, StatusPrefix))

\* status_text.text(f"Checking claim {i+1}/{len(claims)}: {claim[:60]}...")
status_text(k, n, claim) ==
    StatusEvent(k + 1, n, StrSlice(claim, StatusPrefix))

\* progress_bar.progress((i + 1) / len(claims))
progress(k, n) == ProgressEvent(k + 1, n)

\* the record appended for a claim
ClaimResult(claim, category, search_query, analysis, sr) ==
    [claim |-> claim, category |-> category, search_query |-> search_query,
     analysis |-> analysis, sources |-> top_sources(sr)]

\* variant: newest result first
PrependResult(rs, r) == <<r>> \o rs

\* results.append(...)
AppendResult(rs, r) == Append(rs, r)

\* variant: the empty check left out
NeverNoClaims(c) == FALSE

\* `if not claims`
NoClaims(c) == c.kind = "null" \/ (c.kind \in {"list", "string"} /\ Len(c.items) = 0)

\* sum(1 for r in results if r['analysis'].get('verdict') in labels)
CountVerdicts(rs, labels) == Cardinality({k \in 1..Len(rs) : rs[k].analysis.verdict \in labels})

NoSummary == [made |-> FALSE, accurate |-> 0, inaccurate |-> 0, partial |-> 0, unverifiable |-> 0]

Summarize(rs) ==
    [made |-> TRUE,
     accurate |-> CountVerdicts(rs, {"ACCURATE"}),
     inaccurate |-> CountVerdicts(rs, {"INACCURATE"}),
     partial |-> CountVerdicts(rs, {"PARTIALLY_ACCURATE"}),
     unverifiable |-> CountVerdicts(rs, {"UNVERIFIABLE", "ERROR"})]

NoResp == ExtractResp("none", NoVal, NoVal, NonObjElem, <<>>)

Init ==
    /\ pc = "idle"
    /\ claims = EmptyList
    /\ i = 0
    /\ results = <<>>
    /\ events = <<>>
    /\ messages = <<>>
    /\ summary = NoSummary
    /\ fault = ""
    /\ llm_content = NoResp

Crash(why) == pc' = "crashed" /\ fault' = why

\* claims = extract_claims(mistral_client, document_text)
Extract(r) ==
    /\ pc = "idle"
    /\ claims' = extract_claims(r)
    /\ messages' = messages \o extract_messages(r)
    /\ pc' = "extracted"
    /\ UNCHANGED <<i, results, events, summary, fault>>

ExtractClaims == \E r \in ExtractResponses : Extract(r) /\ UNCHANGED llm_content

\* the same step, keeping the language model's response for comparison
ExtractClaimsObserved == \E r \in ExtractResponses : Extract(r) /\ llm_content' = r

\* if not claims: warning, return; else st.success(f"... {len(claims)} ...")
CheckClaims ==
    /\ pc = "extracted"
    /\ IF NoClaims(claims)
       THEN /\ messages' = Append(messages, "warning: no claims")
            /\ pc' = "returned"
            /\ UNCHANGED fault
       ELSE IF claims.kind = "number"
       THEN Crash("TypeError: len()") /\ UNCHANGED messages
       ELSE /\ messages' = Append(messages, "success: found claims")
            /\ pc' = "loop"
            /\ UNCHANGED fault
    /\ UNCHANGED <<claims, i, results, events, summary, llm_content>>

\* the end of an iteration that did not raise: results.append, progress bar
FinishClaim(claim, category, search_query, search_result, analysis, called) ==
    /\ results' = AppendResult(results,
                    ClaimResult(claim, category, search_query, analysis, search_result))
    /\ events' = events
            \o <<status_text(i, Len(claims.items), claim),
                 RetrieveEvent(i + 1, search_query, search_result)>>
            \o called
            \o <<AppendEvent(i + 1), progress(i, Len(claims.items))>>
    /\ i' = i + 1
    /\ UNCHANGED <<pc, fault>>

\* one iteration of `for i, claim_data in enumerate(claims)`
PerClaim ==
    /\ pc = "loop"
    /\ i < Len(claims.items)
    /\ LET claim_data == claims.items[i + 1]
           claim == Get(claim_data.claim, EmptyStr)
           category == Get(claim_data.category, Text("General", 7))
           search_query == Get(claim_data.search_query, claim)
       IN  IF ~claim_data.obj
           THEN Crash("AttributeError: claim_data.get") /\ UNCHANGED <<i, results, events>>
           ELSE IF claim = NonStr
           THEN Crash("TypeError: claim[:60]") /\ UNCHANGED <<i, results, events>>
           ELSE \E tr \in SearchResponses :
               LET search_result == fact_check_claim(tr) IN
               IF ~search_result.success
               THEN FinishClaim(claim, category, search_query, search_result,
                                search_failed_analysis(search_result), <<>>)
               ELSE IF FormatRaises(search_result.results)
               THEN /\ Crash("analyzer: formatting the sources")
                    /\ events' = events
                          \o <<status_text(i, Len(claims.items), claim),
                               RetrieveEvent(i + 1, search_query, search_result),
                               AnalyzeEvent(i + 1, search_result.results)>>
                    /\ UNCHANGED <<i, results>>
               ELSE \E lr \in AnalyzeResponses :
                    FinishClaim(claim, category, search_query, search_result,
                                analyze_claim_with_mistral(lr),
                                <<AnalyzeEvent(i + 1, search_result.results),
                                  LlmEvent(i + 1, lr.tag,
                                           IF lr.tag = "json" THEN "" ELSE FailureReason(lr))>>)
    /\ UNCHANGED <<claims, messages, summary, llm_content>>

\* after the loop: the four summary counts
Aggregate ==
    /\ pc = "loop"
    /\ i >= Len(claims.items)
    /\ IF \E k \in 1..Len(results) : ~results[k].analysis.obj
       THEN Crash("AttributeError: analysis.get") /\ UNCHANGED summary
       ELSE summary' = Summarize(results) /\ pc' = "done" /\ UNCHANGED fault
    /\ UNCHANGED <<claims, i, results, events, messages, llm_content>>

Next == ExtractClaims \/ CheckClaims \/ PerClaim \/ Aggregate

Spec == Init /\ [][Next]_vars

\* extraction and the caller's check alone, with the response kept
NextExtract == ExtractClaimsObserved \/ CheckClaims

SpecExtract == Init /\ [][NextExtract]_vars

\* ---- properties ----------------------------------------------------------

\* positions of the events of one kind
All(ev) == {p \in DOMAIN events : events[p].ev = ev}

IsAppend(e) == e.ev = "append"

ClaimText(k) == Get(claims.items[k].claim, EmptyStr)

\* the extractor yielded no claim (an empty list, or a falsy value in its place)
ZeroClaims == claims.kind \in {"list", "null"} /\ claims.items = <<>>

\* an extraction failure as the caller sees it: zero claims, no exception
TreatedAsZeroClaims == ZeroClaims /\ pc \in {"extracted", "returned"}

Contains(parts, str) == \E p \in DOMAIN parts : parts[p] = str

\* C1: a finished run has one result per extracted claim, the k-th result being that
\* of the k-th claim; while the loop runs the results are those of the first i claims,
\* appended one per claim in claim order.
C1_OneResultPerClaim ==
    pc \in {"loop", "done", "crashed"} =>
        LET appended == SelectSeq(events, IsAppend) IN
        /\ Len(results) = i
        /\ i <= Len(claims.items)
        /\ pc = "done" => Len(results) = Len(claims.items)
        /\ Len(appended) = Len(results)
        /\ \A k \in 1..Len(results) :
              /\ results[k].claim = ClaimText(k)
              /\ results[k].search_query = Get(claims.items[k].search_query, ClaimText(k))
              /\ appended[k].idx = k

C1_Witness ==
    /\ pc = "done"
    /\ Len(results) = 2
    /\ results[1].claim # results[2].claim
    /\ results[1].analysis.verdict = "ERROR"
    /\ results[2].analysis.verdict = "INACCURATE"

\* C2: every appended result carries one of the five verdict labels.
C2_VerdictInEnum ==
    \A k \in 1..Len(results) :
        results[k].analysis.obj /\ results[k].analysis.verdict \in Labels

\* C3: once extraction yielded at least one claim, no fault aborts the run.
C3_NeverAborts ==
    (claims.kind = "list" /\ Len(claims.items) >= 1) => pc # "crashed"

\* C4: a failed retrieval means no analyzer call and an ERROR verdict whose explanation
\* contains the retriever's error; a successful one means exactly one analyzer call,
\* made after it with the sources it returned.
C4_AnalyzerOnlyAfterSuccess ==
    LET analyzer == All("analyze") \cup All("llm") IN
    \A p \in All("retrieve") :
        LET k == events[p].idx
            calls == {q \in analyzer : events[q].idx = k /\ events[q].ev = "analyze"}
        IN  IF events[p].out = "failure"
            THEN /\ \A q \in analyzer : events[q].idx # k
                 /\ k <= Len(results)
                 /\ results[k].analysis.obj
                 /\ results[k].analysis.verdict = "ERROR"
                 /\ Contains(results[k].analysis.explanation, events[p].err)
            ELSE /\ Cardinality(calls) = 1
                 /\ \A q \in calls : q > p /\ events[q].res = events[p].res

C4_Witness ==
    /\ pc = "done"
    /\ \E p \in All("retrieve") : events[p].out = "failure" /\ events[p].err = "timeout"
    /\ \E p \in All("retrieve") : events[p].out = "success" /\ Len(events[p].res.items) = 2

\* C5: top sources are the first min(3, n) of the n sources retrieved, in order.
C5_TopSourcesPrefix ==
    LET retrievals == All("retrieve") IN
    /\ \A k \in 1..Len(results) : \E p \in retrievals : events[p].idx = k
    /\ \A p \in retrievals :
          LET k == events[p].idx IN
          k <= Len(results) =>
              LET got == events[p].res.items
                  top == results[k].sources
              IN  /\ Len(top) = Min(3, Len(got))
                  /\ \A j \in 1..Len(top) : top[j] = got[j]
                  /\ events[p].out = "failure" => top = <<>>

C5_Witness ==
    /\ pc = "done"
    /\ \E k \in 1..Len(results) :
          /\ Len(results[k].sources) = 3
          /\ \E p \in All("retrieve") : events[p].idx = k /\ Len(events[p].res.items) = 5
    /\ \E k \in 1..Len(results) : Len(results[k].sources) = 2

\* C6 as stated: zero claims end the run with a summary of zero results and no
\* retriever or analyzer call.
C6_EmptySummary ==
    (ZeroClaims /\ pc \in {"returned", "done", "crashed"}) =>
        /\ summary.made
        /\ Len(results) = 0
        /\ events = <<>>

\* C6 as amended: zero claims end the run at the caller's check, with the warning, with
\* no retriever or analyzer call, no result and no summary.
C6_NoClaimsReturns ==
    (ZeroClaims /\ pc \notin {"idle", "extracted"}) =>
        /\ pc = "returned"
        /\ events = <<>>
        /\ results = <<>>
        /\ ~summary.made
        /\ fault = ""
        /\ messages # <<>> /\ messages[Len(messages)] = "warning: no claims"

C6_Witness == pc = "returned" /\ messages = <<"warning: no claims">> /\ claims = EmptyList

\* C7: when the analyzer's model call fails or its output does not parse, the analyzer
\* returns (the claim's result is appended) the synthetic verdict: ERROR, LOW, the
\* failure reason in the explanation, no evidence.
C7_AnalyzerFailureVerdict ==
    \A p \in All("llm") :
        events[p].out \in {"error", "badjson"} =>
            LET k == events[p].idx IN
            /\ k <= Len(results)
            /\ results[k].analysis.obj
            /\ results[k].analysis.verdict = "ERROR"
            /\ results[k].analysis.confidence = "LOW"
            /\ Contains(results[k].analysis.explanation, events[p].err)
            /\ results[k].analysis.evidence = ""

C7_Witness ==
    /\ pc = "done"
    /\ \E p \in All("llm") : events[p].out = "error" /\ events[p].err = "rate limit"
    /\ \E p \in All("llm") : events[p].out = "badjson"

\* C8: a bare list yields that list, an object with a claims or data key the list under
\* that key, any other object a one-element list; any other response counts as zero
\* claims and the caller does not crash.
C8_ExtractShapes ==
    pc # "idle" =>
        LET r == llm_content
            wrapped == IF r.claimsVal # NoVal THEN r.claimsVal ELSE r.dataVal
        IN  IF r.tag = "list" THEN claims = List(r.items)
            ELSE IF r.tag = "dict" /\ r.claimsVal = NoVal /\ r.dataVal = NoVal
            THEN claims = List(<<r.self>>)
            ELSE IF r.tag = "dict" /\ r.claimsVal # NoVal /\ r.dataVal # NoVal
            THEN TRUE
            ELSE IF r.tag = "dict" /\ wrapped.kind = "list"
            THEN claims = wrapped
            ELSE TreatedAsZeroClaims

\* C9 as stated: N notifications, the k-th with index k, total N and the prefix of the
\* k-th claim's text, each after the k-th result was appended.
C9_NotifiedAfterIteration ==
    LET appends == All("append") IN
    /\ pc = "done" => Cardinality(All("status")) = Len(claims.items)
    /\ \A p \in All("status") :
          LET k == events[p].idx IN
          /\ events[p].total = Len(claims.items)
          /\ IsStrPrefix(events[p].text, ClaimText(k))
          /\ \E q \in appends : events[q].idx = k /\ q < p

\* C9 as amended: the k-th status notification (index k, total N, first 60 characters
\* of the k-th claim's text) is emitted at the start of the k-th iteration: after the
\* (k-1)-th result was appended and before the k-th retrieval; a run whose loop
\* completes has emitted N of them, and the progress bar moves to k/N right after the
\* k-th append.
C9_StatusAtIterationStart ==
    LET statuses == All("status")
        appends == All("append")
        retrievals == All("retrieve")
    IN
    /\ pc = "done" => Cardinality(statuses) = Len(claims.items)
    /\ \A p \in statuses :
          LET k == events[p].idx IN
          /\ k = Cardinality({q \in statuses : q <= p})
          /\ events[p].total = Len(claims.items)
          /\ IsStrPrefix(events[p].text, ClaimText(k))
          /\ events[p].text.len = Min(60, ClaimText(k).len)
          /\ Cardinality({q \in appends : q < p}) = k - 1
          /\ \A q \in appends \cup retrievals : events[q].idx = k => q > p
    /\ \A p \in All("progress") :
          /\ events[p].total = Len(claims.items)
          /\ p > 1 /\ events[p - 1].ev = "append" /\ events[p - 1].idx = events[p].idx

C9_Witness ==
    /\ pc = "done"
    /\ Cardinality(All("status")) = 2
    /\ \E p \in All("status") : events[p].idx = 1 /\ events[p].text.len = 60
    /\ \E p \in All("status") : events[p].idx = 2 /\ events[p].text.len = 12

\* C10: the four summary counts add up to the number of results.
C10_BucketsSum ==
    summary.made =>
        summary.accurate + summary.inaccurate + summary.partial + summary.unverifiable
            = Len(results)

====
